---- MODULE Spec2Model ----
(***************************************************************************)
(* State-machine model of main.py of the IFSC lookup service: the slugify  *)
(* helper, slug resolution (get_real_names), the request handlers, the     *)
(* pooled-connection dependency (get_db_pool / get_db_conn) and the        *)
(* sitemap generators.                                                     *)
(*                                                                         *)
(* Text values are sequences of one-character tokens.  The token "e_acute" *)
(* stands for U+00E9 and "E_acute" for U+00C9.  Python's None is the value *)
(* None below.                                                             *)
(***************************************************************************)
EXTENDS Integers, Sequences, FiniteSets, TLC

VARIABLES
    \* slugify driver
    sx, sy, s1, sy1, s2, spc,
    \* the branches table and the last request / response of a handler
    catalog, lastReq, resp, resolution, work,
    \* the module-level pool handle, the pools constructed, the requests in
    \* flight, and when the framework runs the exit code of a dependency
    db_pool, pools, reqs, exitFirst

slugVars == <<sx, sy, s1, sy1, s2, spc>>
handlerVars == <<catalog, lastReq, resp, resolution, work>>
poolVars == <<db_pool, pools, reqs, exitFirst>>
vars == <<slugVars, handlerVars, poolVars>>

----------------------------------------------------------------------------
\* Bounds

\* longest text fed to slugify
MaxLen == 3

----------------------------------------------------------------------------
\* Characters

None == <<"<None>">>

LowerLetters == {"a", "b", "e", "s", "c"}
UpperLetters == {"A", "B", "E", "S", "C"}
Digits == {"1", "2"}
AccentedLetters == {"e_acute", "E_acute"}

\* str.upper() / SQL UPPER() on one character
ToUpperChar(c) ==
    CASE c = "a" -> "A" [] c = "b" -> "B" [] c = "e" -> "E" [] c = "s" -> "S"
      [] c = "c" -> "C" [] c = "e_acute" -> "E_acute" [] OTHER -> c

\* str.lower() on one character
ToLowerChar(c) ==
    CASE c = "A" -> "a" [] c = "B" -> "b" [] c = "E" -> "e" [] c = "S" -> "s"
      [] c = "C" -> "c" [] c = "E_acute" -> "e_acute" [] OTHER -> c

IsAscii(c) == c \notin AccentedLetters

\* \w of the re module on a str (after the ascii round trip only ASCII is left)
IsWord(c) == c \in LowerLetters \cup UpperLetters \cup Digits \cup AccentedLetters \cup {"_"}

\* \s of the re module, and the characters str.strip() removes
IsSpace(c) == c = " "

RECURSIVE Flatten(_)
Flatten(ss) == IF ss = <<>> THEN <<>> ELSE Head(ss) \o Flatten(Tail(ss))

\* the texts of at most n characters
RECURSIVE Texts(_, _)
Texts(chars, n) ==
    IF n = 0 THEN {<<>>}
    ELSE LET shorter == Texts(chars, n - 1)
         IN  shorter \cup {Append(t, c) : t \in shorter, c \in chars}

----------------------------------------------------------------------------
\* slugify

\* unicodedata.normalize('NFKD', c).encode('ascii', 'ignore').decode('ascii')
\* on one character: the base letter is kept, the combining mark is dropped
AsciiFold(c) ==
    CASE c = "e_acute" -> <<"e">>
      [] c = "E_acute" -> <<"E">>
      [] OTHER -> IF IsAscii(c) THEN <<c>> ELSE <<>>

NfkdAscii(s) == Flatten([i \in 1..Len(s) |-> AsciiFold(s[i])])

\* re.sub(r'[^\w\s-]', '', value)
RemoveNonWord(s) == SelectSeq(s, LAMBDA c : IsWord(c) \/ IsSpace(c) \/ c = "-")

RECURSIVE LStrip(_)
LStrip(s) == IF s # <<>> /\ IsSpace(Head(s)) THEN LStrip(Tail(s)) ELSE s

RECURSIVE RStrip(_)
RStrip(s) ==
    IF s # <<>> /\ IsSpace(s[Len(s)]) THEN RStrip(SubSeq(s, 1, Len(s) - 1)) ELSE s

\* str.strip()
Strip(s) == RStrip(LStrip(s))

LowerMutant(s) == s

\* str.lower()
Lower(s) == [i \in 1..Len(s) |-> ToLowerChar(s[i])]

IsSep(c) == c = "-" \/ IsSpace(c)

\* re.sub(r'[-\s]+', '-', value)
RECURSIVE CollapseRuns(_)
CollapseRuns(s) ==
    IF s = <<>> THEN <<>>
    ELSE IF IsSep(Head(s))
         THEN IF Len(s) > 1 /\ IsSep(s[2])
              THEN CollapseRuns(Tail(s))
              ELSE <<"-">> \o CollapseRuns(Tail(s))
         ELSE <<Head(s)>> \o CollapseRuns(Tail(s))

slugify(value) ==
    IF value = None \/ value = <<>> THEN <<>>
    ELSE CollapseRuns(Lower(Strip(RemoveNonWord(NfkdAscii(value)))))

----------------------------------------------------------------------------
\* The branches table

\* most rows of the table
MaxRows == 2

\* longest code sent to /ifsc/{code} and /api/ifsc/{code}
MaxCodeLen == 3

\* highest position of a database operation within one request that may raise
MaxDbOps == 10

Row(i, b, s, c) == [ifsc |-> i, bank |-> b, state |-> s, city |-> c]

\* what fetchone() returns when the result set is empty
NoRow == Row(None, None, None, None)

\* No field is guaranteed non-null except ifsc; stored codes may carry stray
\* whitespace, punctuation or lower case.
RowPool ==
    { Row(<<"A", "1">>,      <<"A", " ", "b">>, <<"S">>, <<"C">>),
      Row(<<"a", " ", "1">>, <<"A", "-", "b">>, <<"E">>, <<"B">>),
      Row(<<"B", "2">>,      <<"A", " ", "b">>, <<"E">>, <<"C">>),
      Row(<<" ", "A", "2">>, <<"!">>,           <<"S">>, <<"B">>),
      Row(<<"B", "-", "2">>, None,              None,    None) }

NoRepeat(t) == \A i, j \in 1..Len(t) : i # j => t[i] # t[j]

\* the tables of at most n distinct rows, in every enumeration order
RECURSIVE Tables(_)
Tables(n) ==
    IF n = 0 THEN {<<>>}
    ELSE LET shorter == Tables(n - 1)
             longer == {Append(t, r) : t \in shorter, r \in RowPool}
         IN  shorter \cup {t \in longer : NoRepeat(t)}

Catalogs == Tables(MaxRows)

\* Python truthiness of a str-or-None value
Falsy(v) == v = None \/ v = <<>>

\* str.upper()
Upper(s) == [i \in 1..Len(s) |-> ToUpperChar(s[i])]

\* REGEXP_REPLACE(UPPER(ifsc), '[^A-Z0-9]', '', 'g')
NormSql(ifsc) == SelectSeq(Upper(ifsc), LAMBDA c : c \in UpperLetters \cup Digits)

\* "".join(c for c in ifsc if c.isalnum()).upper()
NormPy(ifsc) == Upper(SelectSeq(ifsc, LAMBDA c : IsWord(c) /\ c # "_"))

\* SELECT * FROM branches WHERE REGEXP_REPLACE(...) = %s ; fetchone()
RECURSIVE LookupQuery(_, _)
LookupQuery(cat, search_code) ==
    IF cat = <<>> THEN NoRow
    ELSE IF NormSql(Head(cat).ifsc) = search_code THEN Head(cat)
    ELSE LookupQuery(Tail(cat), search_code)

----------------------------------------------------------------------------
\* Exceptions, responses, requests

NoExc == [type |-> "none", status |-> 0, detail |-> <<>>]

HTTPException(status, detail) ==
    [type |-> "HTTPException", status |-> status, detail |-> detail]

\* what a psycopg2 call raises; its text is internal to the server
DbErrorText == "db error text"
DbError == [type |-> "DatabaseError", status |-> 0, detail |-> <<DbErrorText>>]

\* str(e)
StatusText(n) ==
    CASE n = 404 -> "404" [] n = 500 -> "500" [] n = 503 -> "503" [] OTHER -> "200"

StrExc(e) ==
    IF e.type = "HTTPException" THEN <<StatusText(e.status), ": ">> \o e.detail
    ELSE e.detail

NoNames == [bank |-> None, state |-> None, city |-> None]

NoResp ==
    [status |-> 0, kind |-> "none", template |-> "", detail |-> <<>>,
     branch |-> NoRow, error |-> "", names |-> NoNames, items |-> {}]

\* a JSON body
JsonRecord(row) == [NoResp EXCEPT !.status = 200, !.kind = "json", !.branch = row]

\* what FastAPI sends for a raised HTTPException: {"detail": ...}
HttpError(e) == [NoResp EXCEPT !.status = e.status, !.kind = "error", !.detail = e.detail]

\* templates.TemplateResponse(name, context): status 200
Template(name, row, error, names, items) ==
    [NoResp EXCEPT !.status = 200, !.kind = "html", !.template = name,
                   !.branch = row, !.error = error, !.names = names, !.items = items]

\* an exception that leaves the application: the server answers 500
ServerError == [NoResp EXCEPT !.status = 500, !.kind = "text",
                              !.detail = <<"Internal Server Error">>]

NoReq ==
    [handler |-> "none", code |-> None, bank_slug |-> None, state_slug |-> None,
     city_slug |-> None, dep |-> "ok", failAt |-> 0]

\* Progress of the database work of one request: ops counts the database
\* operations made so far, exc is the exception in flight.
NoWork ==
    [ops |-> 0, exc |-> NoExc, bank |-> None, state |-> None, city |-> None,
     queries |-> <<>>, value |-> NoRow, items |-> {}]

\* one database operation (cursor(), execute(), fetch): the failAt-th of the
\* request raises
DbOp(w, failAt) ==
    IF w.exc # NoExc THEN w
    ELSE IF w.ops + 1 = failAt THEN [w EXCEPT !.ops = @ + 1, !.exc = DbError]
    ELSE [w EXCEPT !.ops = @ + 1]

\* cur.execute(sql): the query is sent, and may raise
Execute(w, q, failAt) ==
    IF w.exc # NoExc THEN w
    ELSE DbOp([w EXCEPT !.queries = Append(@, q)], failAt)

Raise(w, e) == IF w.exc # NoExc THEN w ELSE [w EXCEPT !.exc = e]

Query(level, b, s) == [level |-> level, bank |-> b, state |-> s]

----------------------------------------------------------------------------
\* get_db_conn, as a request sees it: dep is "ok", "no_pool" (get_db_pool
\* returned None) or "getconn_raises" (pool.getconn() raised)

Deps == {"ok", "no_pool", "getconn_raises"}

DependencyResponse(dep) ==
    IF dep = "no_pool"
    THEN HttpError(HTTPException(503, <<"Database connection pool is not available">>))
    ELSE ServerError

\* what a handler leaves: the response and the database work behind it
Out(response, w) == [resp |-> response, work |-> w]

----------------------------------------------------------------------------
\* /api/ifsc/{code} and /ifsc/{code}

\* the body of the try block of both handlers
LookupWork(cat, code, failAt) ==
    LET search_code == Upper(code)
        w1 == DbOp(NoWork, failAt)
        w2 == Execute(w1, Query("ifsc", None, None), failAt)
        w3 == DbOp(w2, failAt)
    IN  IF w3.exc # NoExc THEN w3
        ELSE [w3 EXCEPT !.value = LookupQuery(cat, search_code)]

get_ifsc_api(cat, code, failAt) ==
    LET w == LookupWork(cat, code, failAt)
        \* if branch_data: return ... else: raise HTTPException(404), inside the try
        body == IF w.exc # NoExc THEN w
                ELSE IF w.value # NoRow THEN w
                ELSE Raise(w, HTTPException(404, <<"IFSC code not found">>))
    IN  \* except Exception: raise HTTPException(500)
        Out(IF body.exc # NoExc
            THEN HttpError(HTTPException(500, <<"Internal server error">>))
            ELSE JsonRecord(body.value), body)

get_ifsc_page(cat, code, failAt) ==
    LET w == LookupWork(cat, code, failAt)
        row == w.value
        slugs == IF row # NoRow
                 THEN [bank |-> slugify(row.bank), state |-> slugify(row.state),
                       city |-> slugify(row.city)]
                 ELSE [bank |-> <<>>, state |-> <<>>, city |-> <<>>]
    IN  Out(IF w.exc # NoExc
            THEN Template("results.html", NoRow, "A database error occurred.", NoNames, {})
            ELSE Template("results.html", row, "", slugs, {}), w)

----------------------------------------------------------------------------
\* get_real_names

\* the distinct values of a column, in the order the table yields them
RECURSIVE Distinct(_)
Distinct(vals) ==
    IF vals = <<>> THEN <<>>
    ELSE <<Head(vals)>> \o Distinct(SelectSeq(Tail(vals), LAMBDA v : v # Head(vals)))

\* SELECT DISTINCT bank FROM branches
BankNames(cat) == Distinct([i \in 1..Len(cat) |-> cat[i].bank])

StateNamesMutant(cat, bank) == Distinct([i \in 1..Len(cat) |-> cat[i].state])

\* SELECT DISTINCT state FROM branches WHERE bank = %s
StateNames(cat, bank) ==
    LET rows == SelectSeq(cat, LAMBDA r : r.bank # None /\ r.bank = bank)
    IN  Distinct([i \in 1..Len(rows) |-> rows[i].state])

\* SELECT DISTINCT city FROM branches WHERE bank = %s AND state = %s
CityNames(cat, bank, state) ==
    LET rows == SelectSeq(cat, LAMBDA r : /\ r.bank # None /\ r.bank = bank
                                          /\ r.state # None /\ r.state = state)
    IN  Distinct([i \in 1..Len(rows) |-> rows[i].city])

RECURSIVE FirstMatchMutant(_, _)
FirstMatchMutant(names, slug) ==
    IF names = <<>> THEN None
    ELSE IF Head(names) # None /\ Lower(Head(names)) = slug THEN Head(names)
    ELSE FirstMatchMutant(Tail(names), slug)

\* for row in cur.fetchall(): if slugify(row[col]) == slug: real = row[col]; break
RECURSIVE FirstMatch(_, _)
FirstMatch(names, slug) ==
    IF names = <<>> THEN None
    ELSE IF slugify(Head(names)) = slug THEN Head(names)
    ELSE FirstMatch(Tail(names), slug)

BankLevel(w, cat, bank_slug, failAt) ==
    IF w.exc # NoExc \/ Falsy(bank_slug) THEN w
    ELSE LET e == Execute(w, Query("bank", None, None), failAt)
             f == DbOp(e, failAt)
             real_bank_name == FirstMatch(BankNames(cat), bank_slug)
         IN  IF f.exc # NoExc THEN f
             ELSE IF Falsy(real_bank_name)
                  THEN Raise(f, HTTPException(404, <<"Bank not found">>))
                  ELSE [f EXCEPT !.bank = real_bank_name]

StateLevel(w, cat, state_slug, failAt) ==
    IF w.exc # NoExc \/ Falsy(state_slug) \/ Falsy(w.bank) THEN w
    ELSE LET e == Execute(w, Query("state", w.bank, None), failAt)
             f == DbOp(e, failAt)
             real_state_name == FirstMatch(StateNames(cat, w.bank), state_slug)
         IN  IF f.exc # NoExc THEN f
             ELSE IF Falsy(real_state_name)
                  THEN Raise(f, HTTPException(404, <<"State not found for this bank">>))
                  ELSE [f EXCEPT !.state = real_state_name]

CityLevel(w, cat, city_slug, failAt) ==
    IF w.exc # NoExc \/ Falsy(city_slug) \/ Falsy(w.bank) \/ Falsy(w.state) THEN w
    ELSE LET e == Execute(w, Query("city", w.bank, w.state), failAt)
             f == DbOp(e, failAt)
             real_city_name == FirstMatch(CityNames(cat, w.bank, w.state), city_slug)
         IN  IF f.exc # NoExc THEN f
             ELSE IF Falsy(real_city_name)
                  THEN Raise(f, HTTPException(404, <<"City not found for this bank/state">>))
                  ELSE [f EXCEPT !.city = real_city_name]

\* the work record holds the three real names, or the exception raised
get_real_names(cat, bank_slug, state_slug, city_slug, failAt) ==
    LET cur == DbOp(NoWork, failAt)
        b == BankLevel(cur, cat, bank_slug, failAt)
        s == StateLevel(b, cat, state_slug, failAt)
    IN  CityLevel(s, cat, city_slug, failAt)

----------------------------------------------------------------------------
\* The listing pages

\* cursor(), execute(), fetchall() of a listing query, after resolution
Listing(w, q, failAt) == DbOp(Execute(DbOp(w, failAt), q, failAt), failAt)

Names(w) == [bank |-> w.bank, state |-> w.state, city |-> w.city]

\* except Exception as e: raise HTTPException(status_code=404, detail=f"Error: {e}")
ErrorAs404(e) == HttpError(HTTPException(404, <<"Error: ">> \o StrExc(e)))

get_banks_list(cat, failAt) ==
    LET w == Listing(NoWork, Query("banks", None, None), failAt)
    IN  Out(IF w.exc # NoExc
            THEN Template("index.html", NoRow, "Could not load bank list.", NoNames, {})
            ELSE Template("banks_list.html", NoRow, "", NoNames,
                          {cat[i].bank : i \in 1..Len(cat)}), w)

get_states_list(cat, w0, failAt) ==
    LET w == Listing(w0, Query("states", w0.bank, None), failAt)
    IN  Out(IF w.exc # NoExc THEN ErrorAs404(w.exc)
        ELSE Template("states_list.html", NoRow, "", Names(w),
                      {cat[i].state : i \in {j \in 1..Len(cat) : cat[j].bank = w.bank}}), w)

get_cities_list(cat, w0, failAt) ==
    LET w == Listing(w0, Query("cities", w0.bank, w0.state), failAt)
    IN  Out(IF w.exc # NoExc THEN ErrorAs404(w.exc)
        ELSE Template("cities_list.html", NoRow, "", Names(w),
                      {cat[i].city : i \in {j \in 1..Len(cat) :
                          cat[j].bank = w.bank /\ cat[j].state = w.state}}), w)

get_branches_list(cat, w0, failAt) ==
    LET w == Listing(w0, Query("branches", w0.bank, w0.state), failAt)
    IN  Out(IF w.exc # NoExc THEN ErrorAs404(w.exc)
        ELSE Template("branches_list.html", NoRow, "", Names(w),
                      {cat[i].ifsc : i \in {j \in 1..Len(cat) :
                          /\ cat[j].bank = w.bank /\ cat[j].state = w.state
                          /\ cat[j].city = w.city}}), w)

----------------------------------------------------------------------------
\* One request at a time against a table: the handler runs from the
\* dependency to the response in one step.

CodeChars == {"a", "A", "1", " "}

\* a path segment is never empty
Codes == Texts(CodeChars, MaxCodeLen) \ {<<>>}

BankSlugs == {<<"a", "-", "b">>, <<"b">>}
StateSlugs == {<<"s">>, <<"e">>}
CitySlugs == {<<"c">>, <<"b">>}

\* the inputs of a request: the state of the dependency and the database
\* operation that raises, if any
Serve(handler, code, b, s, c, dep, failAt, out, names) ==
    /\ dep # "ok" => failAt = 0
    /\ lastReq' = [handler |-> handler, code |-> code, bank_slug |-> b,
                   state_slug |-> s, city_slug |-> c, dep |-> dep, failAt |-> failAt]
    /\ resp' = IF dep # "ok" THEN DependencyResponse(dep) ELSE out.resp
    /\ work' = IF dep # "ok" THEN NoWork ELSE out.work
    /\ resolution' = IF dep # "ok" THEN NoWork ELSE names
    /\ UNCHANGED <<catalog, slugVars, poolVars>>

GetIfscApi ==
    /\ resp = NoResp
    /\ \E code \in Codes, dep \in Deps, failAt \in 0..MaxDbOps :
           Serve("get_ifsc_api", code, None, None, None, dep, failAt,
                 get_ifsc_api(catalog, code, failAt), NoWork)

GetIfscPage ==
    /\ resp = NoResp
    /\ \E code \in Codes, dep \in Deps, failAt \in 0..MaxDbOps :
           Serve("get_ifsc_page", code, None, None, None, dep, failAt,
                 get_ifsc_page(catalog, code, failAt), NoWork)

GetBanksList ==
    /\ resp = NoResp
    /\ \E dep \in Deps, failAt \in 0..MaxDbOps :
           Serve("get_banks_list", None, None, None, None, dep, failAt,
                 get_banks_list(catalog, failAt), NoWork)

GetStatesList ==
    /\ resp = NoResp
    /\ \E b \in BankSlugs, dep \in Deps, failAt \in 0..MaxDbOps :
           LET w == get_real_names(catalog, b, None, None, failAt)
           IN  Serve("get_states_list", None, b, None, None, dep, failAt,
                     get_states_list(catalog, w, failAt), w)

GetCitiesList ==
    /\ resp = NoResp
    /\ \E b \in BankSlugs, s \in StateSlugs, dep \in Deps, failAt \in 0..MaxDbOps :
           LET w == get_real_names(catalog, b, s, None, failAt)
           IN  Serve("get_cities_list", None, b, s, None, dep, failAt,
                     get_cities_list(catalog, w, failAt), w)

GetBranchesList ==
    /\ resp = NoResp
    /\ \E b \in BankSlugs, s \in StateSlugs, c \in CitySlugs,
          dep \in Deps, failAt \in 0..MaxDbOps :
           LET w == get_real_names(catalog, b, s, c, failAt)
           IN  Serve("get_branches_list", None, b, s, c, dep, failAt,
                     get_branches_list(catalog, w, failAt), w)

\* get_real_names called with the slug of a bank of the table
ResolveBank ==
    /\ resp = NoResp
    /\ \E i \in 1..Len(catalog), failAt \in 0..MaxDbOps :
          LET bank_slug == slugify(catalog[i].bank)
              w == get_real_names(catalog, bank_slug, None, None, failAt)
          IN  /\ catalog[i].bank # None
              /\ lastReq' = [NoReq EXCEPT !.handler = "get_real_names",
                                          !.bank_slug = bank_slug, !.failAt = failAt]
              /\ resp' = [NoResp EXCEPT !.kind = "returned"]
              /\ resolution' = w
              /\ work' = w
              /\ UNCHANGED <<catalog, slugVars, poolVars>>

\* the response has been sent; the next request finds the same table
NextRequest ==
    /\ resp # NoResp
    /\ lastReq' = NoReq
    /\ resp' = NoResp
    /\ resolution' = NoWork
    /\ work' = NoWork
    /\ UNCHANGED <<catalog, slugVars, poolVars>>

----------------------------------------------------------------------------
\* Sitemap documents

\* SITEMAP_PAGE_SIZE of main.py, scaled down from 20000
SITEMAP_PAGE_SIZE == 2

\* highest page number requested
MaxPage == 2

\* a chunk of an XML document
Chunk(tag, text, n) == [tag |-> tag, text |-> text, n |-> n]

XmlDecl == Chunk("decl", <<>>, 0)
OpenTag(root) == Chunk("open", <<root>>, 0)
CloseTag(root) == Chunk("close", <<root>>, 0)
UrlEntry(path) == Chunk("url", path, 0)
SitemapEntry(name, n) == Chunk("sitemap", <<name>>, n)

\* ORDER BY on a text column: code point order, the order of the C locale
CharRank(c) ==
    CASE c = " " -> 1 [] c = "!" -> 2 [] c = "-" -> 3 [] c = "1" -> 4 [] c = "2" -> 5
      [] c = "A" -> 6 [] c = "B" -> 7 [] c = "C" -> 8 [] c = "E" -> 9 [] c = "S" -> 10
      [] c = "_" -> 11 [] c = "a" -> 12 [] c = "b" -> 13 [] c = "c" -> 14
      [] c = "e" -> 15 [] c = "s" -> 16 [] c = "E_acute" -> 17 [] OTHER -> 18

RECURSIVE LessText(_, _)
LessText(a, b) ==
    IF b = <<>> THEN FALSE
    ELSE IF a = <<>> THEN TRUE
    ELSE IF Head(a) = Head(b) THEN LessText(Tail(a), Tail(b))
    ELSE CharRank(Head(a)) < CharRank(Head(b))

\* ascending order of a nullable column: NULL sorts last
LessNullable(a, b) ==
    IF a = None THEN FALSE ELSE IF b = None THEN TRUE ELSE LessText(a, b)

LessTriple(x, y) ==
    IF x.bank # y.bank THEN LessNullable(x.bank, y.bank)
    ELSE IF x.state # y.state THEN LessNullable(x.state, y.state)
    ELSE LessNullable(x.city, y.city)

\* LIMIT n OFFSET o
Slice(rows, o, n) ==
    IF o >= Len(rows) THEN <<>>
    ELSE SubSeq(rows, o + 1, IF o + n < Len(rows) THEN o + n ELSE Len(rows))

\* SELECT ifsc FROM branches ORDER BY ifsc
BranchesByRaw(cat) == SortSeq(cat, LAMBDA x, y : LessText(x.ifsc, y.ifsc))

\* SELECT DISTINCT bank, state, city FROM branches ORDER BY bank, state, city
CityTriples(cat) ==
    SortSeq(Distinct([i \in 1..Len(cat) |-> Names(cat[i])]), LessTriple)

\* the rows the named cursor of a page yields
PageRows(kind, cat, page) ==
    LET offset == (page - 1) * SITEMAP_PAGE_SIZE
    IN  Slice(IF kind = "branches" THEN BranchesByRaw(cat) ELSE CityTriples(cat),
              offset, SITEMAP_PAGE_SIZE)

\* the chunks the loop body yields for one row: one entry, or none
BranchEntry(row) ==
    LET ifsc == NormPy(row.ifsc)
    IN  IF ifsc # <<>> THEN <<UrlEntry(<<"/ifsc/">> \o ifsc)>> ELSE <<>>

CityEntry(row) ==
    LET bank_slug == slugify(row.bank)
        state_slug == slugify(row.state)
        city_slug == slugify(row.city)
    IN  IF bank_slug # <<>> /\ state_slug # <<>> /\ city_slug # <<>>
        THEN <<UrlEntry(<<"/bank/">> \o bank_slug \o <<"/">> \o state_slug
                                     \o <<"/">> \o city_slug)>>
        ELSE <<>>

RowEntry(kind, row) == IF kind = "branches" THEN BranchEntry(row) ELSE CityEntry(row)

\* math.ceil(total / SITEMAP_PAGE_SIZE)
PageCount(total) == (total + SITEMAP_PAGE_SIZE - 1) \div SITEMAP_PAGE_SIZE

PageEntries(name, count) == [i \in 1..count |-> SitemapEntry(name, i)]

StaticEntries ==
    <<SitemapEntry("static", 0), SitemapEntry("banks", 0), SitemapEntry("states", 0)>>

\* the database operations of get_sitemap_index: cursor, execute, fetchone, twice
IndexDbOps == 6

\* get_sitemap_index: the document written to the StringIO; the failAt-th
\* database operation (cursor, execute, fetchone, twice) raises
get_sitemap_index(cat, failAt) ==
    LET total_cities == Len(CityTriples(cat))
        total_branches == Len(cat)
        cities == IF failAt \in 1..(IndexDbOps \div 2) THEN <<>>
                  ELSE PageEntries("cities", PageCount(total_cities))
        branches == IF failAt \in 1..IndexDbOps THEN <<>>
                    ELSE PageEntries("branches", PageCount(total_branches))
    IN  <<XmlDecl, OpenTag("sitemapindex")>> \o StaticEntries \o cities \o branches
            \o <<CloseTag("sitemapindex")>>

----------------------------------------------------------------------------
\* The connection pool and the requests that use it

\* requests in flight at once
NumReqs == 2

\* SimpleConnectionPool(1, 5, dsn=conn_string)
PoolMinConn == 1
PoolMaxConn == 5

Reqs == 1..NumReqs

\* pool and conn are 0 for None; holds: the connection is checked out by
\* this request; acquired and released count getconn and putconn; failed: a
\* database operation of the sitemap raised
IdleReq ==
    [pc |-> "idle", pool |-> 0, conn |-> 0, holds |-> FALSE, kind |-> "none",
     page |-> 0, gpc |-> "none", rows |-> <<>>, doc |-> <<>>, status |-> 0,
     acquired |-> 0, released |-> 0, failed |-> FALSE]

\* a pool after its constructor connected minconn connections
NewPool == [idle |-> 1..PoolMinConn, used |-> {}]

\* the connections of pool p that exist: idle, checked out, or still
\* referenced by a request
Known(p) ==
    pools[p].idle \cup pools[p].used \cup
    {reqs[q].conn : q \in {x \in Reqs : reqs[x].pool = p}}

FreshConn(p) == CHOOSE c \in 1..(PoolMaxConn + NumReqs + 1) :
                    c \notin Known(p) /\ \A d \in 1..(c - 1) : d \in Known(p)

\* pool.putconn(conn): kept idle while fewer than minconn are idle, else closed
PutConn(P, c) ==
    [idle |-> IF Cardinality(P.idle) < PoolMinConn THEN P.idle \cup {c} ELSE P.idle,
     used |-> P.used \ {c}]

\* the connection of request r has not been closed by the pool
ConnOpen(r) ==
    reqs[r].conn \in pools[reqs[r].pool].idle \cup pools[reqs[r].pool].used

Rest == <<slugVars, lastReq, resp, resolution, work, catalog, exitFirst>>

\* a request arrives; FastAPI resolves Depends(get_db_conn) first
Start(r) ==
    /\ reqs[r].pc \in {"idle", "done"}
    /\ reqs' = [reqs EXCEPT ![r] = [IdleReq EXCEPT !.pc = "get_db_pool"]]
    /\ UNCHANGED <<db_pool, pools, Rest>>

\* get_db_pool: if db_pool is None
GetPoolCheck(r) ==
    /\ reqs[r].pc = "get_db_pool"
    /\ reqs' = [reqs EXCEPT ![r].pc = IF db_pool = 0 THEN "construct" ELSE "return_pool"]
    /\ UNCHANGED <<db_pool, pools, Rest>>

\* get_db_pool: db_pool = SimpleConnectionPool(...), or the except branch
\* (the environment variable is not set, the server cannot be reached)
GetPoolConstruct(r) ==
    /\ reqs[r].pc = "construct"
    /\ \E ok \in BOOLEAN :
         IF ok
         THEN /\ pools' = Append(pools, NewPool)
              /\ db_pool' = Len(pools) + 1
         ELSE UNCHANGED <<db_pool, pools>>
    /\ reqs' = [reqs EXCEPT ![r].pc = "return_pool"]
    /\ UNCHANGED Rest

\* get_db_pool: return db_pool
GetPoolReturn(r) ==
    /\ reqs[r].pc = "return_pool"
    /\ reqs' = [reqs EXCEPT ![r].pool = db_pool, ![r].pc = "get_db_conn"]
    /\ UNCHANGED <<db_pool, pools, Rest>>

\* get_db_conn: if pool is None: raise HTTPException(status_code=503)
NoPool(r) ==
    /\ reqs[r].pc = "get_db_conn"
    /\ reqs[r].pool = 0
    /\ reqs' = [reqs EXCEPT ![r].status = 503, ![r].pc = "done"]
    /\ UNCHANGED <<db_pool, pools, Rest>>

\* get_db_conn: conn = pool.getconn(); yield conn
GetConn(r) ==
    /\ reqs[r].pc = "get_db_conn"
    /\ reqs[r].pool # 0
    /\ LET p == reqs[r].pool
           P == pools[p]
       IN  /\ P.idle # {} \/ Cardinality(P.used) < PoolMaxConn
           /\ \E c \in IF P.idle # {} THEN P.idle ELSE {FreshConn(p)} :
                /\ pools' = [pools EXCEPT ![p] = [idle |-> P.idle \ {c},
                                                  used |-> P.used \cup {c}]]
                /\ reqs' = [reqs EXCEPT ![r].conn = c, ![r].holds = TRUE,
                                        ![r].acquired = @ + 1, ![r].pc = "handler"]
    /\ UNCHANGED <<db_pool, Rest>>

\* get_db_conn: pool.getconn() raises (the pool is exhausted, or the new
\* connection cannot be made); finally: conn is None, nothing is put back
GetConnRaises(r) ==
    /\ reqs[r].pc = "get_db_conn"
    /\ reqs[r].pool # 0
    /\ pools[reqs[r].pool].idle = {}
    /\ reqs' = [reqs EXCEPT ![r].status = 500, ![r].pc = "done"]
    /\ UNCHANGED <<db_pool, pools, Rest>>

\* any handler that answers with a whole response: it returns the response
\* or raises an HTTPException; the exit code of get_db_conn runs next
HandlerPlain(r) ==
    /\ reqs[r].pc = "handler"
    /\ \E status \in {200, 404, 500} :
         reqs' = [reqs EXCEPT ![r].kind = "plain", ![r].status = status,
                              ![r].pc = "teardown"]
    /\ UNCHANGED <<db_pool, pools, Rest>>

\* get_sitemap_index
HandlerIndex(r) ==
    /\ reqs[r].pc = "handler"
    /\ \E failAt \in 0..IndexDbOps :
         reqs' = [reqs EXCEPT ![r].kind = "index", ![r].status = 200,
                              ![r].doc = get_sitemap_index(catalog, failAt),
                              ![r].failed = failAt # 0,
                              ![r].pc = "teardown"]
    /\ UNCHANGED <<db_pool, pools, Rest>>

\* get_sitemap_cities_page, get_sitemap_branches_page: return
\* StreamingResponse(generator(conn, page)); nothing of the generator has run.
\* The framework runs the exit code of get_db_conn either before the response
\* is sent or after it.
HandlerStream(r, kinds, pages) ==
    /\ reqs[r].pc = "handler"
    /\ \E kind \in kinds, page \in pages :
         reqs' = [reqs EXCEPT ![r].kind = kind, ![r].page = page, ![r].status = 200,
                              ![r].gpc = "decl",
                              ![r].pc = IF exitFirst THEN "teardown" ELSE "stream"]
    /\ UNCHANGED <<db_pool, pools, Rest>>

TeardownNoPut(r) ==
    /\ reqs[r].pc = "teardown"
    /\ IF reqs[r].conn # 0 /\ reqs[r].status = 200
       THEN /\ pools' = [pools EXCEPT ![reqs[r].pool] = PutConn(@, reqs[r].conn)]
            /\ reqs' = [reqs EXCEPT ![r].holds = FALSE, ![r].released = @ + 1,
                                    ![r].pc = IF reqs[r].gpc = "decl" THEN "stream"
                                              ELSE "done"]
       ELSE /\ reqs' = [reqs EXCEPT ![r].pc = "done"]
            /\ UNCHANGED pools
    /\ UNCHANGED <<db_pool, Rest>>

\* get_db_conn: finally: if conn: pool.putconn(conn)
Teardown(r) ==
    /\ reqs[r].pc = "teardown"
    /\ IF reqs[r].conn # 0
       THEN /\ pools' = [pools EXCEPT ![reqs[r].pool] = PutConn(@, reqs[r].conn)]
            /\ reqs' = [reqs EXCEPT ![r].holds = FALSE, ![r].released = @ + 1,
                                    ![r].pc = IF reqs[r].gpc = "decl" THEN "stream"
                                              ELSE "done"]
       ELSE /\ reqs' = [reqs EXCEPT ![r].pc = "done"]
            /\ UNCHANGED pools
    /\ UNCHANGED <<db_pool, Rest>>

----------------------------------------------------------------------------
\* The generators of the streamed sitemap pages

Root == "urlset"

\* yield '<?xml ...?>' ; yield '<urlset ...>'
GenHeader(r) ==
    /\ reqs[r].pc = "stream"
    /\ reqs[r].gpc \in {"decl", "root"}
    /\ reqs' = [reqs EXCEPT
                  ![r].doc = Append(@, IF reqs[r].gpc = "decl" THEN XmlDecl
                                       ELSE OpenTag(Root)),
                  ![r].gpc = IF reqs[r].gpc = "decl" THEN "root" ELSE "cursor"]
    /\ UNCHANGED <<db_pool, pools, Rest>>

\* with conn.cursor(name=...) as cur: it raises on a closed connection
GenCursor(r) ==
    /\ reqs[r].pc = "stream"
    /\ reqs[r].gpc = "cursor"
    /\ \E ok \in BOOLEAN :
         /\ ok => ConnOpen(r)
         /\ reqs' = [reqs EXCEPT ![r].gpc = IF ok THEN "execute" ELSE "closing",
                                 ![r].failed = ~ok]
    /\ UNCHANGED <<db_pool, pools, Rest>>

\* cur.execute(sql_query, (SITEMAP_PAGE_SIZE, offset)): a negative OFFSET is
\* an error of the database
GenExecute(r) ==
    /\ reqs[r].pc = "stream"
    /\ reqs[r].gpc = "execute"
    /\ \E ok \in BOOLEAN :
         /\ ok => (ConnOpen(r) /\ (reqs[r].page - 1) * SITEMAP_PAGE_SIZE >= 0)
         /\ reqs' = [reqs EXCEPT
                       ![r].gpc = IF ok THEN "fetch" ELSE "closing",
                       ![r].failed = ~ok,
                       ![r].rows = IF ok THEN PageRows(reqs[r].kind, catalog, reqs[r].page)
                                   ELSE <<>>]
    /\ UNCHANGED <<db_pool, pools, Rest>>

\* for row in cur: ... yield the entry; the loop ends when the cursor is
\* exhausted, and a fetch may raise
GenFetch(r) ==
    /\ reqs[r].pc = "stream"
    /\ reqs[r].gpc = "fetch"
    /\ IF reqs[r].rows = <<>>
       THEN reqs' = [reqs EXCEPT ![r].gpc = "closing"]
       ELSE \E ok \in BOOLEAN :
              /\ ok => ConnOpen(r)
              /\ reqs' = [reqs EXCEPT
                            ![r].gpc = IF ok THEN "fetch" ELSE "closing",
                            ![r].failed = ~ok,
                            ![r].rows = IF ok THEN Tail(@) ELSE <<>>,
                            ![r].doc = IF ok THEN @ \o RowEntry(reqs[r].kind, Head(reqs[r].rows))
                                       ELSE @]
    /\ UNCHANGED <<db_pool, pools, Rest>>

GenClosingMutant(r) ==
    /\ reqs[r].pc = "stream"
    /\ reqs[r].gpc = "closing"
    /\ reqs' = [reqs EXCEPT
                  ![r].doc = IF reqs[r].failed THEN @ ELSE Append(@, CloseTag(Root)),
                  ![r].gpc = "finished",
                  ![r].pc = IF reqs[r].holds THEN "teardown" ELSE "done"]
    /\ UNCHANGED <<db_pool, pools, Rest>>

\* except Exception: print(...) ; finally: yield '</urlset>'
GenClosing(r) ==
    /\ reqs[r].pc = "stream"
    /\ reqs[r].gpc = "closing"
    /\ reqs' = [reqs EXCEPT
                  ![r].doc = Append(@, CloseTag(Root)),
                  ![r].gpc = "finished",
                  ![r].pc = IF reqs[r].holds THEN "teardown" ELSE "done"]
    /\ UNCHANGED <<db_pool, pools, Rest>>

\* the client goes away while the response is being sent: the generator is
\* suspended at a yield (or has not started) and is not resumed, so no
\* further chunk is sent
Abort(r) ==
    /\ reqs[r].pc = "stream"
    /\ reqs[r].gpc \in {"decl", "root", "cursor"}
         \/ (reqs[r].gpc = "fetch" /\ Len(reqs[r].doc) > 2)
    /\ reqs' = [reqs EXCEPT ![r].gpc = "aborted", ![r].rows = <<>>,
                            ![r].pc = IF reqs[r].holds THEN "teardown" ELSE "done"]
    /\ UNCHANGED <<db_pool, pools, Rest>>

----------------------------------------------------------------------------
\* Driver of slugify: an input, a second input that differs from it in
\* letter case only, one application to each and a second application.

SlugChars == {"a", "A", "1", " ", "-", "_", "!", "e_acute"}

SlugInputs == Texts(SlugChars, MaxLen) \cup {None}

SwapCaseChar(c) == IF ToUpperChar(c) # c THEN ToUpperChar(c) ELSE ToLowerChar(c)

\* change the case of one letter of the second input
SwapCase ==
    /\ spc = "input"
    /\ sy # None
    /\ \E i \in 1..Len(sy) :
         /\ SwapCaseChar(sy[i]) # sy[i]
         /\ sy' = [sy EXCEPT ![i] = SwapCaseChar(sy[i])]
    /\ UNCHANGED <<sx, s1, sy1, s2, spc, handlerVars, poolVars>>

CallSlugify ==
    /\ spc = "input"
    /\ s1' = slugify(sx)
    /\ sy1' = slugify(sy)
    /\ spc' = "once"
    /\ UNCHANGED <<sx, sy, s2, handlerVars, poolVars>>

CallSlugifyAgain ==
    /\ spc = "once"
    /\ s2' = slugify(s1)
    /\ spc' = "twice"
    /\ UNCHANGED <<sx, sy, s1, sy1, handlerVars, poolVars>>

----------------------------------------------------------------------------
\* Specifications

\* the steps of request r; kinds and pages are the streamed sitemaps and the
\* page numbers clients ask for
Step(r, kinds, pages) ==
    \/ Start(r) \/ GetPoolCheck(r) \/ GetPoolConstruct(r) \/ GetPoolReturn(r)
    \/ NoPool(r) \/ GetConn(r)
    \/ HandlerPlain(r) \/ HandlerIndex(r) \/ HandlerStream(r, kinds, pages)
    \/ Teardown(r)
    \/ GenHeader(r) \/ GenCursor(r) \/ GenExecute(r) \/ GenFetch(r)
    \/ GenClosing(r) \/ Abort(r)

\* concurrent requests over one table; the streamed ones ask for the first
\* page of a sitemap
PoolNext == \E r \in Reqs : Step(r, {"cities", "branches"}, {1}) \/ GetConnRaises(r)

\* one request at a time over every table and page; the one idle connection
\* of the pool is always there for it
StreamNext == Step(1, {"cities", "branches"}, 0..MaxPage)

PoolTable == <<Row(<<" ", "a", "1">>, <<"A", " ", "b">>, <<"S">>, <<"C">>)>>

InitPool ==
    /\ catalog = PoolTable
    /\ db_pool = 0 /\ pools = <<>>
    /\ exitFirst \in BOOLEAN
    /\ reqs = [r \in Reqs |-> IdleReq]
    /\ lastReq = NoReq /\ resp = NoResp /\ resolution = NoWork /\ work = NoWork
    /\ sx = None /\ sy = None /\ s1 = None /\ sy1 = None /\ s2 = None
    /\ spc = "idle"

InitStream ==
    /\ catalog \in Catalogs
    /\ db_pool = 0 /\ pools = <<>>
    /\ exitFirst \in BOOLEAN
    /\ reqs = [r \in Reqs |-> IdleReq]
    /\ lastReq = NoReq /\ resp = NoResp /\ resolution = NoWork /\ work = NoWork
    /\ sx = None /\ sy = None /\ s1 = None /\ sy1 = None /\ s2 = None
    /\ spc = "idle"

SpecPool == InitPool /\ [][PoolNext]_vars

SpecStream == InitStream /\ [][StreamNext]_vars

HandlerNext ==
    \/ GetIfscApi \/ GetIfscPage \/ GetBanksList \/ GetStatesList
    \/ GetCitiesList \/ GetBranchesList \/ ResolveBank \/ NextRequest

InitHandlers ==
    /\ catalog \in Catalogs
    /\ lastReq = NoReq
    /\ resp = NoResp
    /\ resolution = NoWork
    /\ work = NoWork
    /\ sx = None /\ sy = None /\ s1 = None /\ sy1 = None /\ s2 = None
    /\ spc = "idle"
    /\ db_pool = 0 /\ pools = <<>> /\ exitFirst = FALSE
    /\ reqs = [r \in Reqs |-> IdleReq]

SpecHandlers == InitHandlers /\ [][HandlerNext]_vars

SlugNext == SwapCase \/ CallSlugify \/ CallSlugifyAgain

InitSlug ==
    /\ sx \in SlugInputs
    /\ sy = sx
    /\ s1 = None /\ sy1 = None /\ s2 = None
    /\ spc = "input"
    /\ catalog = <<>>
    /\ lastReq = NoReq
    /\ resp = NoResp
    /\ resolution = NoWork
    /\ work = NoWork
    /\ db_pool = 0 /\ pools = <<>> /\ exitFirst = FALSE
    /\ reqs = [r \in Reqs |-> IdleReq]

SpecSlug == InitSlug /\ [][SlugNext]_vars

----------------------------------------------------------------------------
\* Claims about the handlers

Answered(h) == resp # NoResp /\ lastReq.handler = h /\ lastReq.dep = "ok"

\* a database operation of the request raised
QueryRaised == work.exc = DbError

Stored == {catalog[i] : i \in 1..Len(catalog)}

\* C1 (as stated): the branch lookup of /ifsc/{code} and /api/ifsc/{code}
\* returns a row exactly when the normalized inbound code equals the
\* normalized stored ifsc of some row, and the row returned is such a row.
C1_AsStated ==
    ((Answered("get_ifsc_api") \/ Answered("get_ifsc_page")) /\ ~QueryRaised) =>
        LET matching == {r \in Stored : NormSql(r.ifsc) = NormSql(lastReq.code)}
        IN  /\ resp.branch # NoRow <=> matching # {}
            /\ resp.branch # NoRow => resp.branch \in matching

\* C2 (as stated): /api/ifsc/{code} answers 200 with the record when a row
\* matches, 404 with an error body when the query succeeds and no row
\* matches, 503 when the pool is unavailable, and 500 only when the query
\* raises.
C2_AsStated ==
    /\ (resp # NoResp /\ lastReq.handler = "get_ifsc_api" /\ lastReq.dep = "no_pool")
          => resp.status = 503
    /\ Answered("get_ifsc_api") =>
          LET row == LookupQuery(catalog, Upper(lastReq.code))
          IN  /\ (~QueryRaised /\ row # NoRow) =>
                    (resp.status = 200 /\ resp.kind = "json" /\ resp.branch = row)
              /\ (~QueryRaised /\ row = NoRow) =>
                    (resp.status = 404 /\ resp.kind = "error")
              /\ resp.status = 500 => QueryRaised

ListHandlers == {"get_states_list", "get_cities_list", "get_branches_list"}

PageHandlers == ListHandlers \cup {"get_banks_list", "get_ifsc_page", "get_ifsc_api"}

InDetail(text) == \E i \in 1..Len(resp.detail) : resp.detail[i] = text

\* C10 (as stated): when a database operation raises during a request whose
\* slugs and code are well-formed, the status is 500 and the body holds no
\* text of the exception; 404 is produced only when a slug or a code did not
\* resolve.
C10_AsStated ==
    \A h \in PageHandlers :
        Answered(h) =>
            /\ QueryRaised => (resp.status = 500 /\ ~InDetail(DbErrorText))
            /\ resp.status = 404 => ~QueryRaised

\* the names of the table at each level, within the scope of the levels above
BanksOf == {r.bank : r \in Stored} \ {None}
StatesOf(bank) == {r.state : r \in {q \in Stored : q.bank = bank}} \ {None}
CitiesOf(bank, state) ==
    {r.city : r \in {q \in Stored : q.bank = bank /\ q.state = state}} \ {None}

Matches(names, slug) == {n \in names : slugify(n) = slug}

Levels(w) == [i \in 1..Len(w.queries) |-> w.queries[i].level]

Supplied(slug) == slug # None

\* the queries get_real_names makes when every supplied level resolves
LevelsAsked ==
    <<"bank">> \o (IF Supplied(lastReq.state_slug) THEN <<"state">> ELSE <<>>)
               \o (IF Supplied(lastReq.city_slug) THEN <<"city">> ELSE <<>>)

\* C7: get_real_names resolves bank, then state, then city; at the first
\* level whose slug matches no name in scope it raises a 404 that names the
\* level and queries no deeper level; a result it returns has every supplied
\* level resolved to a name within the scope of the levels above.
C7_Resolution ==
    \A h \in ListHandlers :
        (Answered(h) /\ resolution.exc # DbError) =>
            LET r == resolution
                banks == Matches(BanksOf, lastReq.bank_slug)
                states == Matches(StatesOf(r.bank), lastReq.state_slug)
                cities == Matches(CitiesOf(r.bank, r.state), lastReq.city_slug)
            IN  IF r.exc = NoExc
                THEN /\ r.bank \in banks
                     /\ Supplied(lastReq.state_slug) => r.state \in states
                     /\ Supplied(lastReq.city_slug) => r.city \in cities
                     /\ Levels(r) = LevelsAsked
                ELSE /\ r.exc.type = "HTTPException" /\ r.exc.status = 404
                     /\ resp.status = 404
                     /\ CASE r.exc.detail = <<"Bank not found">> ->
                               /\ banks = {}
                               /\ Levels(r) = <<"bank">>
                               /\ r.bank = None /\ r.state = None /\ r.city = None
                          [] r.exc.detail = <<"State not found for this bank">> ->
                               /\ Supplied(lastReq.state_slug)
                               /\ r.bank \in banks /\ states = {}
                               /\ Levels(r) = <<"bank", "state">>
                               /\ r.state = None /\ r.city = None
                          [] r.exc.detail = <<"City not found for this bank/state">> ->
                               /\ Supplied(lastReq.city_slug)
                               /\ r.bank \in banks /\ r.state \in states /\ cities = {}
                               /\ Levels(r) = <<"bank", "state", "city">>
                               /\ r.city = None
                          [] OTHER -> FALSE

\* a three-level request stopped at the state level: the bank resolved, the
\* state slug belongs to another bank only, and no city query was made
C7_Witness ==
    /\ Answered("get_branches_list")
    /\ resolution.exc.detail = <<"State not found for this bank">>
    /\ resolution.bank = <<"A", " ", "b">>
    /\ lastReq.state_slug = <<"e">>
    /\ \E r \in Stored : r.state = <<"E">>
    /\ Levels(resolution) = <<"bank", "state">>

BankResolved ==
    /\ resolution.exc = NoExc
    /\ resolution.bank \in Matches(BanksOf, lastReq.bank_slug)

ResolvedBankCall ==
    resp # NoResp /\ lastReq.handler = "get_real_names" /\ resolution.exc # DbError

\* C8 (as stated): for every bank name b of the table, resolving slugify(b)
\* at bank level returns a bank name of the table with the same slug.
C8_AsStated == ResolvedBankCall => BankResolved

\* C8 (amended): the same, for every bank name b whose slug is not empty.
C8_ResolveBank == (ResolvedBankCall /\ lastReq.bank_slug # <<>>) => BankResolved

\* two names of the table share the slug; the first one enumerated is returned
C8_Witness ==
    /\ ResolvedBankCall
    /\ Len(catalog) = 2
    /\ catalog[1].bank = <<"A", "-", "b">>
    /\ catalog[2].bank = <<"A", " ", "b">>
    /\ lastReq.bank_slug = <<"a", "-", "b">>
    /\ resolution.bank = <<"A", "-", "b">>

----------------------------------------------------------------------------
\* C9 (as stated): slugify is idempotent, insensitive to letter case, maps
\* the empty and the null input to the empty string, and its result holds
\* only lowercase letters, digits and single hyphens.
Idempotent == spc = "twice" => s2 = s1

CaseInsensitive == spc # "input" => sy1 = s1

EmptyToEmpty == (spc # "input" /\ (sx = None \/ sx = <<>>)) => s1 = <<>>

SingleHyphens(s) == \A i \in 1..(Len(s) - 1) : ~(s[i] = "-" /\ s[i + 1] = "-")

C9_AsStated ==
    /\ Idempotent
    /\ CaseInsensitive
    /\ EmptyToEmpty
    /\ spc # "input" =>
         /\ \A i \in 1..Len(s1) : s1[i] \in LowerLetters \cup Digits \cup {"-"}
         /\ SingleHyphens(s1)

\* C9 (amended): as above, but the result may also hold underscores, which
\* the \w class of the first substitution keeps.
C9_Slugify ==
    /\ Idempotent
    /\ CaseInsensitive
    /\ EmptyToEmpty
    /\ spc # "input" =>
         /\ \A i \in 1..Len(s1) : s1[i] \in LowerLetters \cup Digits \cup {"-", "_"}
         /\ SingleHyphens(s1)

\* an input with an upper-case letter, a separator run and a removed
\* character has been slugified twice, and a case variant of it once
C9_Witness ==
    /\ spc = "twice"
    /\ sx = <<"A", " ", "!">>
    /\ sy = <<"a", " ", "!">>
    /\ s1 = <<"a">>
    /\ s2 = <<"a">>

----------------------------------------------------------------------------
\* Claims about the connection pool

Streamed == {"cities", "branches"}

\* the requests that have a connection of pool p checked out
Holders(p) == {r \in Reqs : reqs[r].holds /\ reqs[r].pool = p}

\* C3: a connection acquired by get_db_conn is put back exactly once on
\* every exit path of the invocation; no invocation puts back a connection
\* it did not get (a getconn that raised is followed by no putconn); the
\* connections checked out of a pool are exactly those of the invocations
\* still holding one, so none is checked out once all invocations completed.
C3_ScopedConnection ==
    /\ \A r \in Reqs :
         /\ reqs[r].released <= reqs[r].acquired
         /\ reqs[r].acquired <= 1
         /\ reqs[r].acquired = 0 <=> reqs[r].conn = 0
         /\ reqs[r].holds <=> (reqs[r].acquired = 1 /\ reqs[r].released = 0)
         /\ reqs[r].pc = "done" => reqs[r].released = reqs[r].acquired
         /\ reqs[r].pc \in {"handler", "teardown"} => reqs[r].holds
    /\ \A p \in 1..Len(pools) :
         /\ pools[p].used = {reqs[r].conn : r \in Holders(p)}
         /\ Cardinality(pools[p].used) = Cardinality(Holders(p))
         /\ pools[p].used \cap pools[p].idle = {}
    /\ (\A r \in Reqs : reqs[r].pc \in {"idle", "done"}) =>
         \A p \in 1..Len(pools) : pools[p].used = {}

\* one invocation left through an exception of its handler and another
\* through a getconn that raised; both completed, nothing is checked out
C3_Witness ==
    \E r, q \in Reqs :
      /\ reqs[r].pc = "done" /\ reqs[r].status = 404
      /\ reqs[r].acquired = 1 /\ reqs[r].released = 1
      /\ reqs[q].pc = "done" /\ reqs[q].status = 500
      /\ reqs[q].pool # 0 /\ reqs[q].acquired = 0 /\ reqs[q].released = 0
      /\ \A p \in 1..Len(pools) : pools[p].used = {}

\* the generator of request r has yielded its first chunk and has neither
\* finished nor been aborted
Streaming(r) ==
    /\ reqs[r].kind \in Streamed
    /\ reqs[r].pc = "stream"
    /\ reqs[r].gpc \in {"root", "cursor", "execute", "fetch", "closing"}

\* C4 (as stated): while the generator of a streamed sitemap page is between
\* its first chunk and its end, its connection is checked out and not back
\* in the pool; once the stream completed or was aborted and the request
\* ended, the connection has been released.
C4_AsStated ==
    \A r \in Reqs :
      /\ Streaming(r) =>
           /\ reqs[r].holds
           /\ reqs[r].conn \in pools[reqs[r].pool].used
           /\ reqs[r].conn \notin pools[reqs[r].pool].idle
           /\ \A q \in Reqs \ {r} :
                ~(reqs[q].holds /\ reqs[q].pool = reqs[r].pool
                                /\ reqs[q].conn = reqs[r].conn)
      /\ (reqs[r].kind \in Streamed /\ reqs[r].pc = "done" /\ reqs[r].conn # 0) =>
           ~reqs[r].holds

\* C11 (as stated): under any interleaving of concurrent invocations at most
\* one pool is ever constructed, db_pool is None until a construction
\* succeeds and is that one pool from then on (never replaced), and every
\* invocation that obtained a pool obtained that same pool.
C11_AsStated ==
    /\ Len(pools) <= 1
    /\ db_pool = Len(pools)
    /\ \A r \in Reqs : reqs[r].pool \in {0, db_pool}
    /\ \A r, q \in Reqs :
         (reqs[r].pool # 0 /\ reqs[q].pool # 0) => reqs[r].pool = reqs[q].pool

----------------------------------------------------------------------------
\* Claims about the sitemap documents

IsPrefix(a, b) == Len(a) <= Len(b) /\ a = SubSeq(b, 1, Len(a))

\* the document starts with the declaration and the opening root tag and
\* ends with the closing root tag, which occurs nowhere else
WellFormed(doc, root) ==
    /\ Len(doc) >= 3
    /\ doc[1] = XmlDecl
    /\ doc[2] = OpenTag(root)
    /\ doc[Len(doc)] = CloseTag(root)
    /\ \A i \in 3..(Len(doc) - 1) : doc[i].tag \in {"url", "sitemap"}

\* what lies between the opening and the closing root tag
Body(doc) == SubSeq(doc, 3, Len(doc) - 1)

\* the entries of a page when no database operation raises
PageBody(kind, cat, page) ==
    IF page >= 1
    THEN LET rows == PageRows(kind, cat, page)
         IN  Flatten([i \in 1..Len(rows) |-> RowEntry(kind, rows[i])])
    ELSE <<>>

\* the entries of the index when no count query raises
IndexBody(cat) ==
    StaticEntries \o PageEntries("cities", PageCount(Len(CityTriples(cat))))
                  \o PageEntries("branches", PageCount(Len(cat)))

C5_Documents ==
    \A r \in Reqs :
      LET q == reqs[r]
      IN  /\ (q.kind \in Streamed /\ q.gpc = "finished") =>
                /\ WellFormed(q.doc, Root)
                /\ IsPrefix(Body(q.doc), PageBody(q.kind, catalog, q.page))
                /\ ~q.failed => Body(q.doc) = PageBody(q.kind, catalog, q.page)
          /\ (q.kind \in Streamed /\ q.gpc # "finished") =>
                /\ \A i \in 1..Len(q.doc) : q.doc[i].tag # "close"
                /\ IsPrefix(q.doc, <<XmlDecl, OpenTag(Root)>>
                                      \o PageBody(q.kind, catalog, q.page))
          /\ q.kind = "index" =>
                /\ WellFormed(q.doc, "sitemapindex")
                /\ IsPrefix(StaticEntries, Body(q.doc))
                /\ IsPrefix(Body(q.doc), IndexBody(catalog))
                /\ ~q.failed => Body(q.doc) = IndexBody(catalog)

\* a step of a request that is sending its document keeps what was sent, and
\* sends nothing once the document is finished
C5_Kept ==
    \A r \in Reqs :
      (reqs[r].kind \in Streamed /\ reqs'[r].pc # "get_db_pool") =>
          /\ IsPrefix(reqs[r].doc, reqs'[r].doc)
          /\ reqs[r].gpc = "finished" => reqs'[r].doc = reqs[r].doc

\* C5: every sitemap document (the index and each streamed page) starts with
\* the XML declaration and its opening root tag and ends with its closing
\* root tag, emitted once and last, whichever database operation raised;
\* the entries written before the failure are kept, in order, and nothing
\* is emitted after the closing tag.
C5_SitemapDocuments == []C5_Documents /\ [][C5_Kept]_vars

\* a streamed page whose second fetch raised: the first entry is kept and
\* the closing tag follows it
C5_Witness ==
    \E r \in Reqs :
      /\ reqs[r].kind = "branches" /\ reqs[r].gpc = "finished" /\ reqs[r].failed
      /\ Len(reqs[r].doc) = 4
      /\ Len(PageBody("branches", catalog, reqs[r].page)) = 2

\* the normalized codes of the catalog in ascending order
NormalizedCodes(cat) ==
    SortSeq([i \in 1..Len(cat) |-> NormPy(cat[i].ifsc)], LessText)

\* C6 (as stated): page p of the branches sitemap holds exactly the entries
\* at positions (p-1)*N .. p*N-1 of the catalog ordered by normalized IFSC
\* ascending, and no normalized IFSC twice.
C6_AsStated ==
    \A r \in Reqs :
      LET q == reqs[r]
          codes == Slice(NormalizedCodes(catalog), (q.page - 1) * SITEMAP_PAGE_SIZE,
                         SITEMAP_PAGE_SIZE)
          body == Body(q.doc)
      IN  (q.kind = "branches" /\ q.gpc = "finished" /\ ~q.failed /\ q.page >= 1) =>
              /\ body = [i \in 1..Len(codes) |-> UrlEntry(<<"/ifsc/">> \o codes[i])]
              /\ \A i, j \in 1..Len(body) : i # j => body[i] # body[j]

====
